---- MODULE Spec2Model ----
(***************************************************************************)
(* Model of mlb_api.py: the team resolver get_team_id_from_name, the tools *)
(* registered by setup_mlb_tools and the lineup normaliser of              *)
(* get_mlb_game_lineup.                                                    *)
(*                                                                         *)
(* Python strings are sequences of one-character strings.  The server is   *)
(* stateless: a state of the model is the reference file on disk together  *)
(* with the observation of the last invocation (operation, arguments,      *)
(* what the provider did, returned value, provider calls issued, number of *)
(* times the reference file was opened).  Requests handled at the same     *)
(* time are modelled apart, statement by statement, with the locals of     *)
(* each request and the file objects they read.                            *)
(***************************************************************************)
EXTENDS Integers, Sequences, FiniteSets, TLC

VARIABLES
    table,      \* data lines of current_mlb_teams.csv, in file order
    op,         \* the operation invoked last ("none" before the first)
    arg,        \* its arguments
    upstream,   \* what the collaborators do during the invocation
    result,     \* the value it returned
    escaped,    \* TRUE when an exception propagated to the caller instead
    calls,      \* provider calls issued during the invocation, in order
    opens,      \* times the reference file was opened during the invocation
    reqs,       \* requests handled concurrently: the locals of each
    files       \* position of each open file object of the reference file

vars == <<table, op, arg, upstream, result, escaped, calls, opens, reqs, files>>

----------------------------------------------------------------------------
(* Bounds                                                                  *)

MaxQueryLen == 3
MaxRows == 2
MaxRequests == 2

----------------------------------------------------------------------------
(* Python string primitives, on sequences of characters                    *)

Digits == {"0", "1", "2", "3", "4", "5", "6", "7", "8", "9"}

Whitespace == {" "}

DigitVal(c) ==
    CASE c = "0" -> 0 [] c = "1" -> 1 [] c = "2" -> 2 [] c = "3" -> 3
      [] c = "4" -> 4 [] c = "5" -> 5 [] c = "6" -> 6 [] c = "7" -> 7
      [] c = "8" -> 8 [] c = "9" -> 9

\* str.lower() on the letters that occur in the model's alphabets
LowerChar(c) ==
    CASE c = "S" -> "s" [] c = "O" -> "o" [] c = "N" -> "n" [] c = "Y" -> "y"
      [] c = "W" -> "w" [] c = "A" -> "a" [] c = "R" -> "r"
      [] OTHER -> c

Lower(s) == [i \in 1..Len(s) |-> LowerChar(s[i])]

RECURSIVE LStrip(_)
LStrip(s) ==
    IF s # <<>> /\ Head(s) \in Whitespace THEN LStrip(Tail(s)) ELSE s

RECURSIVE RStrip(_)
RStrip(s) ==
    IF s # <<>> /\ s[Len(s)] \in Whitespace
    THEN RStrip(SubSeq(s, 1, Len(s) - 1))
    ELSE s

\* str.strip()
Strip(s) == RStrip(LStrip(s))

\* `a in b` on strings
Contains(b, a) ==
    \E i \in 1..(Len(b) - Len(a) + 1) : SubSeq(b, i, i + Len(a) - 1) = a

\* str.replace(c, "")
RECURSIVE RemoveChar(_, _)
RemoveChar(s, c) ==
    IF s = <<>> THEN <<>>
    ELSE IF Head(s) = c THEN RemoveChar(Tail(s), c)
    ELSE <<Head(s)>> \o RemoveChar(Tail(s), c)

\* int(s) succeeds: surrounding whitespace is ignored, what is left is a
\* non-empty run of decimal digits (the alphabets of the model hold no sign
\* and no underscore)
IsIntLiteral(s) ==
    LET t == Strip(s)
    IN  t # <<>> /\ \A i \in 1..Len(t) : t[i] \in Digits

RECURSIVE DecimalValue(_)
DecimalValue(t) ==
    IF t = <<>> THEN 0
    ELSE 10 * DecimalValue(SubSeq(t, 1, Len(t) - 1)) + DigitVal(t[Len(t)])

\* the value of int(s) when it succeeds
IntValue(s) == DecimalValue(Strip(s))

----------------------------------------------------------------------------
(* Python values returned by the resolver                                  *)

PyInt(n) == [kind |-> "int", val |-> n]
PyNone == [kind |-> "None", val |-> 0]
PyRaise(e) == [kind |-> "raise", val |-> 0, exc |-> e]

\* str(e) of the FileNotFoundError open() raises when the reference file is
\* missing
FileError == "[Errno 2] No such file or directory: 'current_mlb_teams.csv'"

\* int(x) as an expression that may raise ValueError
IntOf(s) == IF IsIntLiteral(s) THEN PyInt(IntValue(s)) ELSE PyRaise("ValueError")

----------------------------------------------------------------------------
(* The reference file current_mlb_teams.csv: a header line, then one line  *)
(* per team.  `table` holds the data lines in file order.  The file always *)
(* has its header line (an empty file makes next(reader) raise             *)
(* StopIteration); every data line has a numeric team_id and a team_name,  *)
(* which may be blank.                                                     *)

\* the header line read as a row: every field holds its own name
HeaderLine ==
    [team_id |-> <<"t", "e", "a", "m", "_", "i", "d">>,
     team_name |-> <<"t", "e", "a", "m", "_", "n", "a", "m", "e">>,
     abbreviation |-> <<"a", "b", "b", "r", "e", "v", "i", "a", "t", "i", "o", "n">>,
     location |-> <<"l", "o", "c", "a", "t", "i", "o", "n">>]

FileLines(t) == <<HeaderLine>> \o t

Least(S) == CHOOSE i \in S : \A j \in S : i <= j

\* for row in reader: the index of the first row of those in S, 0 when S
\* is empty
FirstIndex(S) == IF S = {} THEN 0 ELSE Least(S)

\* csv.DictReader over a file positioned at its start: the first line gives
\* the field names, the lines after it are the rows
DictReaderRows(lines) == IF lines = <<>> THEN <<>> ELSE Tail(lines)

RowsAfterRewind_KeepsHeader(lines) == lines

\* f.seek(0); next(reader): the reader already has its field names, so the
\* line it reads after the rewind (the header line) is consumed as a row and
\* dropped; the rows that follow are every data line of the file
RowsAfterRewind(lines) == Tail(lines)

TryInt_Never(team) == PyRaise("ValueError")

\* try: return int(team)
TryInt(team) == IntOf(team)

ExactMatch_Substring(team_lower, row) ==
    Contains(Lower(row.team_name), team_lower)

\* team_lower == row["team_name"].lower().strip()
ExactMatch(team_lower, row) == team_lower = Strip(Lower(row.team_name))

SubstringMatch_Swapped(team_lower, row) ==
    Contains(team_lower, Lower(row.team_name))

\* team_lower in row["team_name"].lower()
SubstringMatch(team_lower, row) == Contains(Lower(row.team_name), team_lower)

NotFound_Zero == PyInt(0)

\* return None
NotFound == PyNone

\* team: a string; t: the data lines of the file; readable: open() succeeds
get_team_id_from_name(team, t, readable) ==
    IF TryInt(team).kind = "int"
    THEN [ret |-> TryInt(team), opens |-> 0]
    ELSE IF ~readable
    THEN [ret |-> PyRaise(FileError), opens |-> 1]
    ELSE
      LET team_lower == Strip(Lower(team))
          lines == FileLines(t)
          Exact(row) == ExactMatch(team_lower, row)
          Sub(row) == SubstringMatch(team_lower, row)
          first == DictReaderRows(lines)
          i == FirstIndex({k \in 1..Len(first) : Exact(first[k])})
          second == RowsAfterRewind(lines)
          j == FirstIndex({k \in 1..Len(second) : Sub(second[k])})
      IN  IF i # 0 THEN [ret |-> IntOf(first[i].team_id), opens |-> 1]
          ELSE IF j # 0 THEN [ret |-> IntOf(second[j].team_id), opens |-> 1]
          ELSE [ret |-> NotFound, opens |-> 1]

----------------------------------------------------------------------------
(* Inputs of the resolver                                                  *)

QueryAlphabet == {"s", "S", "o", " ", "1"}

Queries == UNION {[1..n -> QueryAlphabet] : n \in 0..MaxQueryLen}

\* display names: plain, with trailing whitespace, and one that is blank
TeamNames == {<<"S", "o">>, <<"o", "S", "o">>, <<"o", "s", " ">>, <<" ">>}

TeamIds == {<<"0">>, <<"1", "2">>}

\* abbreviation and location of the team of each name
AbbreviationOf(n) ==
    CASE n = <<"S", "o">> -> <<"S", "S">>
      [] n = <<"o", "S", "o">> -> <<"o", "o">>
      [] n = <<"o", "s", " ">> -> <<"S", "1">>
      [] n = <<" ">> -> <<"o", "1">>

LocationOf(n) ==
    CASE n = <<"S", "o">> -> <<"s">>
      [] n = <<"o", "S", "o">> -> <<"o">>
      [] n = <<"o", "s", " ">> -> <<"1", "s">>
      [] n = <<" ">> -> <<"1", "o">>

TeamRows ==
    {[team_id |-> i, team_name |-> n,
      abbreviation |-> AbbreviationOf(n), location |-> LocationOf(n)] :
        i \in TeamIds, n \in TeamNames}

Tables == UNION {[1..n -> TeamRows] : n \in 0..MaxRows}

NoUpstream ==
    [fail |-> 0, msg |-> "", readable |-> TRUE, status |-> 200, body |-> "full"]

----------------------------------------------------------------------------
(* Request life cycle: the server handles one request at a time and keeps  *)
(* nothing of it once the response is delivered.                           *)

Idle ==
    /\ op = "none"
    /\ arg = [team |-> <<>>]
    /\ upstream = NoUpstream
    /\ result = PyNone
    /\ escaped = FALSE
    /\ calls = <<>>
    /\ opens = 0
    /\ reqs = <<>>
    /\ files = <<>>

Return ==
    /\ op # "none"
    /\ op' = "none"
    /\ arg' = [team |-> <<>>]
    /\ upstream' = NoUpstream
    /\ result' = PyNone
    /\ escaped' = FALSE
    /\ calls' = <<>>
    /\ opens' = 0
    /\ UNCHANGED <<table, reqs, files>>

----------------------------------------------------------------------------
(* Direct call of the helper get_team_id_from_name                         *)

CallGetTeamId ==
    /\ op = "none"
    /\ \E q \in Queries :
        LET r == get_team_id_from_name(q, table, TRUE)
        IN  /\ op' = "get_team_id_from_name"
            /\ arg' = [team |-> q]
            /\ upstream' = NoUpstream
            /\ result' = r.ret
            /\ escaped' = (r.ret.kind = "raise")
            /\ calls' = <<>>
            /\ opens' = r.opens
            /\ UNCHANGED <<table, reqs, files>>

InitResolve == table \in Tables /\ Idle

NextResolve == CallGetTeamId \/ Return

SpecResolve == InitResolve /\ [][NextResolve]_vars

----------------------------------------------------------------------------
(* The tools registered by setup_mlb_tools.  Every tool body runs inside   *)
(* try: ... except Exception as e: return {"error": str(e)}.               *)
(*                                                                         *)
(* upstream.fail = k > 0: the k-th provider call of the invocation raises  *)
(* an exception whose text is upstream.msg; upstream.readable: open() of   *)
(* the reference file succeeds; upstream.status and upstream.body: the     *)
(* status code and payload of a raw adapter response.                      *)

MaxFail == 2

NoneArg == <<>>
Some(x) == <<x>>

\* `not d` for an optional string argument ("None" stands for None)
Falsy(d) == d \in {"None", ""}

\* returned JSON objects, by their keys; a provider object returned as is
Err(msg) == [kind |-> "dict", keys |-> {"error"}, value |-> msg]
Data(key, v) == [kind |-> "dict", keys |-> {key}, value |-> v]
Dict(ks, v) == [kind |-> "dict", keys |-> ks, value |-> v]
Raw(v) == [kind |-> "object", keys |-> {}, value |-> v]

IsErr(r) == r.kind = "dict" /\ r.keys = {"error"}

\* how a try body ends: it returns ret, or it raises exc
Ok(ret, cs, o) ==
    [raised |-> FALSE, exc |-> "", ret |-> ret, calls |-> cs, opens |-> o]
Raised(e, cs, o) ==
    [raised |-> TRUE, exc |-> e, ret |-> Err(e), calls |-> cs, opens |-> o]

ProviderCall(fn, a) == [fn |-> fn, arg |-> a]

Provider_Retry(plan, up, o, ret) ==
    IF up.fail \in 1..Len(plan)
    THEN Raised(up.msg, SubSeq(plan, 1, up.fail) \o <<plan[up.fail]>>, o)
    ELSE Ok(ret, plan, o)

\* issue the provider calls of plan in order, then return ret; the call
\* that raises ends the body
Provider(plan, up, o, ret) ==
    IF up.fail \in 1..Len(plan)
    THEN Raised(up.msg, SubSeq(plan, 1, up.fail), o)
    ELSE Ok(ret, plan, o)

TryExcept_Missing(o) ==
    [ret |-> o.ret, escaped |-> o.raised, calls |-> o.calls, opens |-> o.opens]

\* try: body  except Exception as e: return {"error": str(e)}
TryExcept(o) ==
    [ret |-> IF o.raised THEN Err(o.exc) ELSE o.ret,
     escaped |-> FALSE, calls |-> o.calls, opens |-> o.opens]

\* str.upper() on the league names of the model
Upper(l) ==
    CASE l = "both" -> "BOTH" [] l = "al" -> "AL" [] l = "nl" -> "NL"
      [] OTHER -> l

\* season and end_date are accepted and take no part in what is returned:
\* season is passed on to the provider, end_date is never read
get_mlb_standings(a, up) ==
    TryExcept(
        IF Falsy(a.start_date)
        THEN Ok(Err("start_date is required"), <<>>, 0)
        ELSE
          LET league == Upper(a.league)
              al == IF league \in {"AL", "BOTH"}
                    THEN <<ProviderCall("get_standings", PyInt(103))>>
                    ELSE <<>>
              nl == IF league \in {"NL", "BOTH"}
                    THEN <<ProviderCall("get_standings", PyInt(104))>>
                    ELSE <<>>
              plan == al \o nl
          IN  Provider(plan, up, 0,
                       IF plan = <<>>
                       THEN Err("Invalid league parameter. Use 'AL', 'NL', or 'both'.")
                       ELSE Data("standings", "standings")))

\* team_id = get_team_id_from_name(team) if team is not None else None
ResolveOptional(team, t, up) ==
    IF team # NoneArg
    THEN get_team_id_from_name(team[1], t, up.readable)
    ELSE [ret |-> PyNone, opens |-> 0]

get_mlb_schedule(a, up, t) ==
    TryExcept(
        LET r == ResolveOptional(a.team, t, up)
        IN  IF r.ret.kind = "raise" THEN Raised(r.ret.exc, <<>>, r.opens)
            ELSE IF Falsy(a.start_date) \/ Falsy(a.end_date)
            THEN Ok(Err("start_date and end_date are required"), <<>>, r.opens)
            ELSE Provider(<<ProviderCall("get_schedule", r.ret)>>, up, r.opens,
                          Data("schedule", "schedule")))

get_mlb_team_info(a, up, t) ==
    TryExcept(
        LET r == get_team_id_from_name(a.team[1], t, up.readable)
        IN  IF r.ret.kind = "raise" THEN Raised(r.ret.exc, <<>>, r.opens)
            ELSE IF r.ret.kind = "None"
            THEN Ok(Err("Could not find team ID"), <<>>, r.opens)
            ELSE Provider(<<ProviderCall("get_team", r.ret)>>, up, r.opens,
                          Data("team_info", "team_info")))

\* end_date is accepted and never read
get_mlb_roster(a, up, t) ==
    TryExcept(
        IF Falsy(a.start_date)
        THEN Ok(Err("start_date is required"), <<>>, 0)
        ELSE
          LET r == get_team_id_from_name(a.team[1], t, up.readable)
          IN  IF r.ret.kind = "raise" THEN Raised(r.ret.exc, <<>>, r.opens)
              ELSE IF r.ret.kind = "None"
              THEN Ok(Err("Could not find team ID"), <<>>, r.opens)
              ELSE Provider(<<ProviderCall("get_team_roster", r.ret)>>, up,
                            r.opens, Raw("roster")))

\* one provider call whose value is returned under a key
Wrapped(fn, key, up) ==
    TryExcept(Provider(<<ProviderCall(fn, PyNone)>>, up, 0, Data(key, key)))

\* one provider call whose value is returned as it is
Unwrapped(fn, what, up) ==
    TryExcept(Provider(<<ProviderCall(fn, PyNone)>>, up, 0, Raw(what)))

get_mlb_player_info(up) == Wrapped("get_person", "player_info", up)

get_mlb_boxscore(up) == Unwrapped("get_game_box_score", "boxscore", up)

get_mlb_game_highlights(up) == Unwrapped("get_game", "highlights", up)

get_mlb_game_pace(up) == Unwrapped("get_gamepace", "gamepace", up)

get_mlb_linescore(up) == Unwrapped("get_game_line_score", "linescore", up)

get_mlb_game_scoring_plays(a, up) ==
    TryExcept(
        Provider(<<ProviderCall("get_game_play_by_play", PyNone)>>, up, 0,
                 Data("plays", IF ~Falsy(a.eventType)
                               THEN "filtered_plays" ELSE "allplays")))

get_mlb_search_players(up) == Wrapped("get_people_id", "player_ids", up)

get_mlb_players(up) == Wrapped("get_people", "players", up)

get_mlb_draft(up) == Wrapped("get_draft", "draft", up)

get_mlb_awards(up) == Wrapped("get_awards", "awards", up)

get_mlb_teams(up) == Wrapped("get_teams", "teams", up)

\* the helper get_multiple_player_stats: one raw adapter request
get_multiple_player_stats(up) ==
    LET plan == <<ProviderCall("adapter_get_people", PyNone)>>
    IN  IF up.fail = 1 THEN Raised(up.msg, plan, 0)
        ELSE IF 400 <= up.status /\ up.status <= 499 THEN Ok("{}", plan, 0)
        ELSE IF up.body = "empty" THEN Raised("'people'", plan, 0)
        ELSE Ok("splits", plan, 0)

get_multiple_mlb_player_stats(up) ==
    TryExcept(
        LET h == get_multiple_player_stats(up)
        IN  IF h.raised THEN h
            ELSE Ok(Data("player_stats", h.ret), h.calls, h.opens))

\* int(pid) succeeds for every element of player_ids
AllInts(player_ids) == player_ids \in {"1", "1,2", "2"}

\* the integers of player_ids
PlayerIdsInt(player_ids) ==
    CASE player_ids = "1" -> {1} [] player_ids = "1,2" -> {1, 2}
      [] player_ids = "2" -> {2} [] OTHER -> {}

\* a full response: response.data["stats"] holds one split, of this player
\* and with this stat record (the keys as the provider spells them)
SplitPlayerId == 1

SplitStat ==
    [k \in {<<"w", "a", "r">>, <<"w", "R", "c">>} |->
        IF k = <<"w", "a", "r">> THEN 5 ELSE 7]

\* player_data of one split: stat_name holds the value looked up under
\* stat_name.lower(), or None with available_stats; without stat_name the
\* whole record goes under "sabermetrics"
PlayerData(stat_name, stat) ==
    IF stat_name # NoneArg /\ stat_name[1] # <<>>
    THEN IF Lower(stat_name[1]) \in DOMAIN stat
         THEN [player_id |-> SplitPlayerId, stat_name |-> stat_name[1],
               value |-> PyInt(stat[Lower(stat_name[1])]),
               available_stats |-> {}, sabermetrics |-> FALSE]
         ELSE [player_id |-> SplitPlayerId, stat_name |-> stat_name[1],
               value |-> PyNone,
               available_stats |-> DOMAIN stat, sabermetrics |-> FALSE]
    ELSE [player_id |-> SplitPlayerId, stat_name |-> <<>>, value |-> PyNone,
          available_stats |-> {}, sabermetrics |-> TRUE]

\* the helper get_sabermetrics_for_players: one raw adapter request
get_sabermetrics_for_players(a, up) ==
    LET plan == <<ProviderCall("adapter_get_stats", PyNone)>>
    IN  IF up.fail = 1 THEN Raised(up.msg, plan, 0)
        ELSE IF 400 <= up.status /\ up.status <= 499
        THEN Ok(Err("API error"), plan, 0)
        ELSE IF up.body = "empty" THEN Ok(Err("No stats data found"), plan, 0)
        ELSE IF ~AllInts(a.player_ids)
        THEN Raised("invalid literal for int()", plan, 0)
        ELSE Ok(Dict({"season", "group", "players"},
                     IF SplitPlayerId \in PlayerIdsInt(a.player_ids)
                     THEN <<PlayerData(a.stat_name, SplitStat)>>
                     ELSE <<>>),
                plan, 0)

get_mlb_sabermetrics(a, up) == TryExcept(get_sabermetrics_for_players(a, up))

get_mlb_search_teams(a, up, t) ==
    TryExcept(
        IF ~up.readable THEN Raised(FileError, <<>>, 1)
        ELSE
          LET ById(row) == a.team_name = row.team_id
              ByName(row) == Contains(Lower(row.team_name), Lower(a.team_name))
              Hit(row) ==
                  CASE a.search_key = "id" -> ById(row)
                    [] a.search_key = "name" -> ByName(row)
                    [] OTHER -> ById(row) \/ ByName(row)
          IN  Ok(Data("teams", SelectSeq(t, Hit)), <<>>, 1))

get_statcast_data(a, up) ==
    LET fn == IF a.player_id # 0
              THEN IF a.pitcher THEN "statcast_pitcher" ELSE "statcast_batter"
              ELSE "statcast"
    IN  Wrapped(fn, "statcast_data", up)

----------------------------------------------------------------------------
(* get_mlb_game_lineup: the lineup normaliser                              *)
(*                                                                         *)
(* A raw box score: hasTeams (the object has a teams attribute) and sides, *)
(* a function from the sides that teams holds to their data:               *)
(*   team        "absent" (no attribute), "None", or "full"                *)
(*   playersAttr "absent", "None", or "dict"                               *)
(*   players     the items of the players dict, in iteration order         *)
(* An item: key (the dict key), person ("absent", "None", "full"), pid,    *)
(* jersey, allpositions, order (the battingorder attribute), gamestatus.   *)
(* An optional attribute is [attr |-> "absent" | "None" | "set", v |-> _]. *)

MaxPlayers == 2

Sides == <<"away", "home">>

Absent(v) == [attr |-> "absent", v |-> v]
IsNone(v) == [attr |-> "None", v |-> v]
Set(v) == [attr |-> "set", v |-> v]

\* str.startswith
StartsWith(s, prefix) ==
    Len(s) >= Len(prefix) /\ SubSeq(s, 1, Len(prefix)) = prefix

NoSlotKey == 999

sort_key_PlaceValue(player) ==
    IF player.batting_order.attr # "set" THEN PyInt(NoSlotKey)
    ELSE IF IsIntLiteral(player.batting_order.v)
         THEN PyInt(IntValue(player.batting_order.v) \div 100)
         ELSE PyRaise("ValueError")

\* def sort_key(player)
sort_key(player) ==
    IF player.batting_order.attr # "set" THEN PyInt(NoSlotKey)
    ELSE IntOf(RemoveChar(player.batting_order.v, "0"))

RECURSIVE InsertByKey_Unstable(_, _)
InsertByKey_Unstable(sorted, x) ==
    IF sorted = <<>> THEN <<x>>
    ELSE IF sort_key(Head(sorted)).val < sort_key(x).val
         THEN <<Head(sorted)>> \o InsertByKey_Unstable(Tail(sorted), x)
         ELSE <<x>> \o sorted

\* list.sort(key=...): stable, ascending; insertion of x behind every
\* element whose key is not greater
RECURSIVE InsertByKey(_, _)
InsertByKey(sorted, x) ==
    IF sorted = <<>> THEN <<x>>
    ELSE IF sort_key(Head(sorted)).val <= sort_key(x).val
         THEN <<Head(sorted)>> \o InsertByKey(Tail(sorted), x)
         ELSE <<x>> \o sorted

RECURSIVE SortPlayers(_)
SortPlayers(ps) ==
    IF ps = <<>> THEN <<>>
    ELSE InsertByKey(SortPlayers(SubSeq(ps, 1, Len(ps) - 1)), ps[Len(ps)])

\* the player_info dict built from one item of the players dict; key is
\* not part of the dict the code builds: it names the item the entry came
\* from, so that the order of the output can be related to the input
PlayerInfo(item) ==
    [key |-> item.key,
     player_id |-> IF item.person = "full" THEN PyInt(item.pid) ELSE PyNone,
     player_name |-> IF item.person = "full" THEN "fullname" ELSE "Unknown",
     jersey_number |-> IF item.jersey.attr = "set" THEN item.jersey ELSE IsNone(""),
     positions |-> IF item.allpositions.attr = "set" THEN item.allpositions.v ELSE <<>>,
     batting_order |-> IF item.order.attr = "set" THEN item.order ELSE IsNone(<<>>),
     game_entries |-> IF item.gamestatus.attr = "absent" THEN <<>>
                      ELSE IF item.gamestatus.attr = "None"
                      THEN <<[is_on_bench |-> FALSE, is_substitute |-> FALSE,
                              status |-> "None"]>>
                      ELSE <<item.gamestatus.v>>]

\* the items kept: those whose key starts with "id"
SlotItems(side) ==
    IF side.playersAttr = "dict"
    THEN SelectSeq(side.players, LAMBDA it : StartsWith(it.key, <<"i", "d">>))
    ELSE <<>>

\* the first exception raised while one present side is processed, "" if none
SideRaises(side) ==
    LET items == SlotItems(side)
        infos == [k \in 1..Len(items) |-> PlayerInfo(items[k])]
    IN  IF side.team = "absent" THEN "no attribute 'team'"
        ELSE IF \E k \in 1..Len(items) : items[k].person = "absent"
        THEN "no attribute 'person'"
        ELSE IF \E k \in 1..Len(infos) : sort_key(infos[k]).kind = "raise"
        THEN "invalid literal for int() with base 10"
        ELSE ""

TeamInfo(side) ==
    LET items == SlotItems(side)
    IN  [team_name |-> IF side.team = "full" THEN "name" ELSE "Unknown",
         team_id |-> IF side.team = "full" THEN PyInt(1) ELSE PyNone,
         players |-> SortPlayers([k \in 1..Len(items) |-> PlayerInfo(items[k])])]

\* for team_type in ["away", "home"]: the sides the loop body handles
HandledSides(box) ==
    IF box.hasTeams THEN {sd \in DOMAIN box.sides : \E k \in 1..Len(Sides) : Sides[k] = sd}
    ELSE {}

LineupTeams_Placeholders(box, present) ==
    [sd \in {"away", "home"} |->
        IF sd \in present THEN TeamInfo(box.sides[sd])
        ELSE [team_name |-> "Unknown", team_id |-> PyNone, players |-> <<>>]]

\* result["teams"]: an entry for each side the loop body handled
LineupTeams(box, present) == [sd \in present |-> TeamInfo(box.sides[sd])]

get_mlb_game_lineup(a, up) ==
    TryExcept(
        LET plan == <<ProviderCall("get_game_box_score", PyNone)>>
            box == a.box
            present == HandledSides(box)
            bad == {k \in 1..Len(Sides) :
                        Sides[k] \in present /\ SideRaises(box.sides[Sides[k]]) # ""}
        IN  IF up.fail = 1 THEN Raised(up.msg, plan, 0)
            ELSE IF bad # {}
            THEN Raised(SideRaises(box.sides[Sides[Least(bad)]]), plan, 0)
            ELSE Ok(Dict({"game_id", "teams"}, LineupTeams(box, present)),
                    plan, 0))

----------------------------------------------------------------------------
(* Inputs of the tools                                                     *)

Dates == {"None", "", "2024-06-01"}

Leagues == {"both", "AL", "nl", "XX"}

\* the optional stat_name argument: left out, empty, a key of the stat
\* record as the provider spells it, in another case, or no key of it
StatNames ==
    {NoneArg, Some(<<>>), Some(<<"w", "a", "r">>), Some(<<"W", "A", "R">>),
     Some(<<"w", "R", "c">>), Some(<<"x">>)}

\* the optional season argument: left out, or a year
Seasons == {NoneArg, Some(2022)}

\* team arguments: a numeric ID, a full name, an abbreviation, a location,
\* a string that matches nothing
ToolTeams ==
    {<<"1", "2">>, <<"S", "o">>, <<"S", "S">>, <<"1", "s">>, <<"s", "s", "s">>}

ToolTables ==
    {<<>>,
     <<[team_id |-> <<"0">>, team_name |-> <<"o", "S", "o">>,
        abbreviation |-> AbbreviationOf(<<"o", "S", "o">>),
        location |-> LocationOf(<<"o", "S", "o">>)],
       [team_id |-> <<"1", "2">>, team_name |-> <<"S", "o">>,
        abbreviation |-> AbbreviationOf(<<"S", "o">>),
        location |-> LocationOf(<<"S", "o">>)]>>}

\* the provider raises at call f, or at none
Failing == {[NoUpstream EXCEPT !.fail = f, !.msg = IF f = 0 THEN "" ELSE "boom"] :
                f \in 0..MaxFail}

\* the reference file can be opened, or cannot
Reading == {[u EXCEPT !.readable = r] : u \in Failing, r \in BOOLEAN}

\* raw adapter responses
Responding ==
    {[u EXCEPT !.status = st, !.body = b] :
        u \in Failing, st \in {200, 404, 500}, b \in {"full", "empty"}}

OrderStrings ==
    {<<"1", "0", "0">>, <<"1", "0", "1">>, <<"1", "1", "0">>, <<"2", "0", "0">>,
     <<"9", "0", "0">>, <<"9", "9", "9">>, <<"0", "0", "0">>}

OrderValues == {Absent(<<>>), IsNone(<<>>)} \cup {Set(o) : o \in OrderStrings}

ItemKinds == {"full", "sparse", "noperson", "meta"}

\* a fully described player with any batting order; a sparse one, one without
\* person and a key that is no player slot, each without and with a slot
ItemChoices ==
    {<<"full", o>> : o \in OrderValues}
    \cup {<<k, o>> : k \in ItemKinds \ {"full"},
                     o \in {Absent(<<>>), Set(<<"1", "0", "0">>)}}

DigitChar(k) ==
    CASE k = 1 -> "1" [] k = 2 -> "2" [] k = 3 -> "3" [] k = 4 -> "4" [] OTHER -> "5"

NoStatus == [is_on_bench |-> FALSE, is_substitute |-> FALSE, status |-> "None"]

\* the k-th item of a players dict
Item(k, kind, order) ==
    [key |-> IF kind = "meta" THEN <<"i", "n", "f", "o", DigitChar(k)>>
             ELSE <<"i", "d", DigitChar(k)>>,
     person |-> CASE kind = "sparse" -> "None" [] kind = "noperson" -> "absent"
                  [] OTHER -> "full",
     pid |-> k,
     jersey |-> IF kind = "sparse" THEN Absent("") ELSE Set("99"),
     allpositions |-> IF kind = "sparse" THEN IsNone(<<>>)
                      ELSE Set(<<[position |-> "SS", position_name |-> "Shortstop"]>>),
     order |-> order,
     gamestatus |-> IF kind = "sparse" THEN Absent(NoStatus)
                    ELSE Set([is_on_bench |-> TRUE, is_substitute |-> FALSE,
                              status |-> "A"])]

PlayerDicts ==
    UNION {{[k \in 1..n |-> Item(k, f[k][1], f[k][2])] :
                f \in [1..n -> ItemChoices]} : n \in 0..MaxPlayers}

TeamAttrs == {"absent", "None", "full"}

SideDatas ==
    {[team |-> tm, playersAttr |-> "dict", players |-> ps] :
        tm \in TeamAttrs, ps \in PlayerDicts}
    \cup {[team |-> tm, playersAttr |-> pa, players |-> <<>>] :
        tm \in TeamAttrs, pa \in {"absent", "None"}}

SmallSides ==
    {[team |-> tm, playersAttr |-> "None", players |-> <<>>] : tm \in {"absent", "full"}}

NoSides == [sd \in {} |-> 0]

BoxesOver(full, small) ==
    {[hasTeams |-> ht, sides |-> NoSides] : ht \in BOOLEAN}
    \cup {[hasTeams |-> TRUE, sides |-> [sd \in {x} |-> d]] :
            x \in {"away", "home"}, d \in full}
    \cup {[hasTeams |-> TRUE,
           sides |-> [sd \in {"away", "home"} |-> IF sd = x THEN d ELSE e]] :
            x \in {"away", "home"}, d \in full, e \in small}

Boxes == BoxesOver(SideDatas, SmallSides)

SmallBoxes == BoxesOver(SmallSides, SmallSides)

----------------------------------------------------------------------------
(* One action per tool: a whole invocation, from the call to the return    *)

Invoke(name, a, up, r) ==
    /\ op' = name
    /\ arg' = a
    /\ upstream' = up
    /\ result' = r.ret
    /\ escaped' = r.escaped
    /\ calls' = r.calls
    /\ opens' = r.opens
    /\ UNCHANGED <<table, reqs, files>>

NoArgs == [team |-> NoneArg]

Tool_get_mlb_standings ==
    /\ op = "none"
    /\ \E sn \in Seasons, sd \in Dates, ed \in Dates, lg \in Leagues, up \in Failing :
        LET a == [team |-> NoneArg, season |-> sn, start_date |-> sd,
                  end_date |-> ed, league |-> lg]
        IN  Invoke("get_mlb_standings", a, up, get_mlb_standings(a, up))

Tool_get_mlb_schedule ==
    /\ op = "none"
    /\ \E sd \in Dates, ed \in Dates, up \in Reading,
       tm \in {NoneArg} \cup {Some(q) : q \in ToolTeams} :
        LET a == [team |-> tm, start_date |-> sd, end_date |-> ed]
        IN  Invoke("get_mlb_schedule", a, up, get_mlb_schedule(a, up, table))

Tool_get_mlb_team_info ==
    /\ op = "none"
    /\ \E up \in Reading, q \in ToolTeams :
        LET a == [team |-> Some(q)]
        IN  Invoke("get_mlb_team_info", a, up, get_mlb_team_info(a, up, table))

Tool_get_mlb_roster ==
    /\ op = "none"
    /\ \E sd \in Dates, ed \in Dates, up \in Reading, q \in ToolTeams :
        LET a == [team |-> Some(q), start_date |-> sd, end_date |-> ed]
        IN  Invoke("get_mlb_roster", a, up, get_mlb_roster(a, up, table))

Tool_get_mlb_player_info ==
    /\ op = "none"
    /\ \E up \in Failing :
        Invoke("get_mlb_player_info", NoArgs, up, get_mlb_player_info(up))

Tool_get_mlb_boxscore ==
    /\ op = "none"
    /\ \E up \in Failing :
        Invoke("get_mlb_boxscore", NoArgs, up, get_mlb_boxscore(up))

Tool_get_multiple_mlb_player_stats ==
    /\ op = "none"
    /\ \E up \in Responding :
        Invoke("get_multiple_mlb_player_stats", NoArgs, up,
               get_multiple_mlb_player_stats(up))

Tool_get_mlb_sabermetrics ==
    /\ op = "none"
    /\ \E up \in Responding, ids \in {"1", "1,2", "2", "x"}, sn \in StatNames :
        LET a == [team |-> NoneArg, player_ids |-> ids, stat_name |-> sn]
        IN  Invoke("get_mlb_sabermetrics", a, up, get_mlb_sabermetrics(a, up))

Tool_get_mlb_game_highlights ==
    /\ op = "none"
    /\ \E up \in Failing :
        Invoke("get_mlb_game_highlights", NoArgs, up, get_mlb_game_highlights(up))

Tool_get_mlb_game_pace ==
    /\ op = "none"
    /\ \E up \in Failing :
        Invoke("get_mlb_game_pace", NoArgs, up, get_mlb_game_pace(up))

Tool_get_mlb_game_scoring_plays ==
    /\ op = "none"
    /\ \E up \in Failing, ev \in {"None", "", "home_run"} :
        LET a == [team |-> NoneArg, eventType |-> ev]
        IN  Invoke("get_mlb_game_scoring_plays", a, up,
                   get_mlb_game_scoring_plays(a, up))

Tool_get_mlb_linescore ==
    /\ op = "none"
    /\ \E up \in Failing :
        Invoke("get_mlb_linescore", NoArgs, up, get_mlb_linescore(up))

Tool_get_mlb_search_players ==
    /\ op = "none"
    /\ \E up \in Failing :
        Invoke("get_mlb_search_players", NoArgs, up, get_mlb_search_players(up))

Tool_get_mlb_players ==
    /\ op = "none"
    /\ \E up \in Failing :
        Invoke("get_mlb_players", NoArgs, up, get_mlb_players(up))

Tool_get_mlb_draft ==
    /\ op = "none"
    /\ \E up \in Failing :
        Invoke("get_mlb_draft", NoArgs, up, get_mlb_draft(up))

Tool_get_mlb_awards ==
    /\ op = "none"
    /\ \E up \in Failing :
        Invoke("get_mlb_awards", NoArgs, up, get_mlb_awards(up))

Tool_get_mlb_search_teams ==
    /\ op = "none"
    /\ \E up \in Reading, q \in ToolTeams, sk \in {"name", "id", "all"} :
        LET a == [team |-> NoneArg, team_name |-> q, search_key |-> sk]
        IN  Invoke("get_mlb_search_teams", a, up, get_mlb_search_teams(a, up, table))

Tool_get_mlb_teams ==
    /\ op = "none"
    /\ \E up \in Failing :
        Invoke("get_mlb_teams", NoArgs, up, get_mlb_teams(up))

LineupOver(boxes) ==
    /\ op = "none"
    /\ \E up \in {u \in Failing : u.fail <= 1}, b \in boxes :
        LET a == [team |-> NoneArg, box |-> b]
        IN  Invoke("get_mlb_game_lineup", a, up, get_mlb_game_lineup(a, up))

Tool_get_mlb_game_lineup == LineupOver(SmallBoxes)

Tool_get_statcast_data ==
    /\ op = "none"
    /\ \E up \in Failing, pid \in {0, 660271}, pt \in BOOLEAN :
        LET a == [team |-> NoneArg, player_id |-> pid, pitcher |-> pt]
        IN  Invoke("get_statcast_data", a, up, get_statcast_data(a, up))

Init == table \in ToolTables /\ Idle

Next ==
    \/ Tool_get_mlb_standings
    \/ Tool_get_mlb_schedule
    \/ Tool_get_mlb_team_info
    \/ Tool_get_mlb_player_info
    \/ Tool_get_mlb_boxscore
    \/ Tool_get_multiple_mlb_player_stats
    \/ Tool_get_mlb_sabermetrics
    \/ Tool_get_mlb_game_highlights
    \/ Tool_get_mlb_game_pace
    \/ Tool_get_mlb_game_scoring_plays
    \/ Tool_get_mlb_linescore
    \/ Tool_get_mlb_roster
    \/ Tool_get_mlb_search_players
    \/ Tool_get_mlb_players
    \/ Tool_get_mlb_draft
    \/ Tool_get_mlb_awards
    \/ Tool_get_mlb_search_teams
    \/ Tool_get_mlb_teams
    \/ Tool_get_mlb_game_lineup
    \/ Tool_get_statcast_data
    \/ Return

Spec == Init /\ [][Next]_vars

Lineup_get_mlb_game_lineup == LineupOver(Boxes)

InitLineup == table = <<>> /\ Idle

NextLineup == Lineup_get_mlb_game_lineup \/ Return

SpecLineup == InitLineup /\ [][NextLineup]_vars

----------------------------------------------------------------------------
(* Requests handled at the same time.  Each request is a call of           *)
(* get_mlb_team_info; its statements interleave with those of the others.  *)
(* A request holds its locals: team, pc (the statement it is at), fields   *)
(* (its DictReader has read the field names), ret (what the resolver       *)
(* returned), result; fail = 1 when its provider call raises.  overlapped  *)
(* is not part of the program: it records that the request took a step     *)
(* while another request was between its first and its last statement.     *)

ConcurrentTeams == {<<"1", "2">>, <<"S", "o">>, <<"S">>, <<"s", "s", "s">>}

NewRequest(team, fail) ==
    [team |-> team, fail |-> fail, pc |-> "start", fields |-> FALSE,
     ret |-> PyNone, result |-> PyNone, overlapped |-> FALSE]

\* a request for each team with the provider answering, and one whose
\* provider call raises
ConcurrentRequests ==
    {NewRequest(q, 0) : q \in ConcurrentTeams}
    \cup {NewRequest(<<"1", "2">>, 1)}

OpenFile_Shared(r) == 1

\* open("current_mlb_teams.csv", "r"): every call gives a file object of its
\* own, with a position of its own
OpenFile(r) == r

\* next(reader) of a csv.DictReader over a file object at position pos (the
\* number of lines read): a reader without field names first reads a line
\* as the field names; then the next line is the row; stop: StopIteration
ReaderNext(lines, pos, fields) ==
    LET p == IF ~fields /\ pos < Len(lines) THEN pos + 1 ELSE pos
    IN  IF p < Len(lines)
        THEN [stop |-> FALSE, pos |-> p + 1, fields |-> TRUE, row |-> lines[p + 1]]
        ELSE [stop |-> TRUE, pos |-> p, fields |-> fields \/ pos < Len(lines),
              row |-> HeaderLine]

InFlight(r) == reqs[r].pc \notin {"start", "done"}

\* request r takes a step that gives it the locals next
Step(r, next) ==
    reqs' = [reqs EXCEPT ![r] =
                [next EXCEPT !.overlapped =
                    reqs[r].overlapped
                    \/ \E o \in DOMAIN reqs : o # r /\ InFlight(o)]]

Quiet == UNCHANGED <<table, op, arg, upstream, result, escaped, calls, opens>>

\* try: return int(team); otherwise open the file and build the reader
Begin ==
    \E r \in DOMAIN reqs :
        /\ reqs[r].pc = "start"
        /\ IF TryInt(reqs[r].team).kind = "int"
           THEN /\ Step(r, [reqs[r] EXCEPT !.pc = "resolved",
                                           !.ret = TryInt(reqs[r].team)])
                /\ UNCHANGED files
           ELSE /\ Step(r, [reqs[r] EXCEPT !.pc = "exact"])
                /\ files' = [h \in DOMAIN files \cup {OpenFile(r)} |->
                                IF h = OpenFile(r) THEN 0 ELSE files[h]]
        /\ Quiet

\* one iteration of the first loop: for row in reader, exact match
ReadExact ==
    \E r \in DOMAIN reqs :
        /\ reqs[r].pc = "exact"
        /\ LET n == ReaderNext(FileLines(table), files[OpenFile(r)], reqs[r].fields)
               team_lower == Strip(Lower(reqs[r].team))
           IN  /\ files' = [files EXCEPT ![OpenFile(r)] = n.pos]
               /\ IF n.stop
                  THEN Step(r, [reqs[r] EXCEPT !.pc = "seek", !.fields = n.fields])
                  ELSE IF ExactMatch(team_lower, n.row)
                  THEN Step(r, [reqs[r] EXCEPT !.pc = "resolved", !.fields = n.fields,
                                               !.ret = IntOf(n.row.team_id)])
                  ELSE Step(r, [reqs[r] EXCEPT !.fields = n.fields])
        /\ Quiet

\* f.seek(0)
Seek ==
    \E r \in DOMAIN reqs :
        /\ reqs[r].pc = "seek"
        /\ files' = [files EXCEPT ![OpenFile(r)] = 0]
        /\ Step(r, [reqs[r] EXCEPT !.pc = "skip"])
        /\ Quiet

\* next(reader)  # skip header
Skip ==
    \E r \in DOMAIN reqs :
        /\ reqs[r].pc = "skip"
        /\ LET n == ReaderNext(FileLines(table), files[OpenFile(r)], reqs[r].fields)
           IN  /\ files' = [files EXCEPT ![OpenFile(r)] = n.pos]
               /\ IF n.stop
                  THEN Step(r, [reqs[r] EXCEPT !.pc = "resolved", !.fields = n.fields,
                                               !.ret = PyRaise("StopIteration")])
                  ELSE Step(r, [reqs[r] EXCEPT !.pc = "substring", !.fields = n.fields])
        /\ Quiet

\* one iteration of the second loop: for row in reader, substring match;
\* return None when the rows are used up
ReadSubstring ==
    \E r \in DOMAIN reqs :
        /\ reqs[r].pc = "substring"
        /\ LET n == ReaderNext(FileLines(table), files[OpenFile(r)], reqs[r].fields)
               team_lower == Strip(Lower(reqs[r].team))
           IN  /\ files' = [files EXCEPT ![OpenFile(r)] = n.pos]
               /\ IF n.stop
                  THEN Step(r, [reqs[r] EXCEPT !.pc = "resolved", !.fields = n.fields,
                                               !.ret = NotFound])
                  ELSE IF SubstringMatch(team_lower, n.row)
                  THEN Step(r, [reqs[r] EXCEPT !.pc = "resolved", !.fields = n.fields,
                                               !.ret = IntOf(n.row.team_id)])
                  ELSE Step(r, [reqs[r] EXCEPT !.fields = n.fields])
        /\ Quiet

\* what the provider does for request r
UpstreamOf(r) ==
    [NoUpstream EXCEPT !.fail = reqs[r].fail,
                       !.msg = IF reqs[r].fail = 0 THEN "" ELSE "boom"]

\* the rest of get_mlb_team_info: the check of team_id, the call of
\* mlb.get_team through the client all requests share, the return
Finish ==
    \E r \in DOMAIN reqs :
        /\ reqs[r].pc = "resolved"
        /\ LET ret == reqs[r].ret
               body == IF ret.kind = "raise" THEN Raised(ret.exc, <<>>, 1)
                       ELSE IF ret.kind = "None"
                       THEN Ok(Err("Could not find team ID"), <<>>, 1)
                       ELSE Provider(<<ProviderCall("get_team", ret)>>,
                                     UpstreamOf(r), 1,
                                     Data("team_info", "team_info"))
           IN  Step(r, [reqs[r] EXCEPT !.pc = "done", !.result = TryExcept(body).ret])
        /\ UNCHANGED files
        /\ Quiet

InitConcurrent ==
    /\ table \in ToolTables
    /\ op = "none"
    /\ arg = [team |-> <<>>]
    /\ upstream = NoUpstream
    /\ result = PyNone
    /\ escaped = FALSE
    /\ calls = <<>>
    /\ opens = 0
    /\ reqs \in [1..MaxRequests -> ConcurrentRequests]
    /\ files = <<>>

NextConcurrent ==
    \/ Begin
    \/ ReadExact
    \/ Seek
    \/ Skip
    \/ ReadSubstring
    \/ Finish

SpecConcurrent == InitConcurrent /\ [][NextConcurrent]_vars

----------------------------------------------------------------------------
(* Claims about the resolver, checked under SpecResolve                    *)

Resolved == op = "get_team_id_from_name"

\* a query as the specification normalises it: case-folded and trimmed
Normalized(q) == Strip(Lower(q))

\* the query is a base-10 integer literal, and the integer it denotes
RECURSIVE Pow10(_)
Pow10(k) == IF k = 0 THEN 1 ELSE 10 * Pow10(k - 1)

IsNumeral(q) ==
    LET t == Strip(q) IN t # <<>> /\ \A i \in 1..Len(t) : t[i] \in Digits

RECURSIVE NumeralSum(_, _)
NumeralSum(t, i) ==
    IF i > Len(t) THEN 0
    ELSE DigitVal(t[i]) * Pow10(Len(t) - i) + NumeralSum(t, i + 1)

NumeralValue(q) == NumeralSum(Strip(q), 1)

ExactRows(q) ==
    {i \in 1..Len(table) : Strip(Lower(table[i].team_name)) = Normalized(q)}

SubstringRows(q) ==
    {i \in 1..Len(table) : Contains(Lower(table[i].team_name), Normalized(q))}

IdOfRow(i) == PyInt(NumeralValue(table[i].team_id))

\* C2: a query that parses fully as a base-10 integer n is answered with n
\* and the reference file is not opened, whether or not the table holds n.
C2_NumericPassthrough ==
    (Resolved /\ IsNumeral(arg.team)) =>
        /\ result = PyInt(NumeralValue(arg.team))
        /\ opens = 0
        /\ ~escaped

\* a numeric query whose value is the ID of no record was answered
C2_Witness ==
    /\ Resolved /\ IsNumeral(arg.team)
    /\ table # <<>>
    /\ \A i \in 1..Len(table) : IdOfRow(i) # result
    /\ arg.team = <<" ", "1", "1">>
    /\ result.val = 11

\* C3: for a non-numeric query, when some record's display name equals the
\* query after case-folding and trimming, the ID of the first such record is
\* returned, also when a record whose name only contains the query comes
\* earlier in the table.
C3_ExactMatchPrecedence ==
    (Resolved /\ ~IsNumeral(arg.team) /\ ExactRows(arg.team) # {}) =>
        result = IdOfRow(Least(ExactRows(arg.team)))

\* the exact match sits behind a substring-only match with another ID
C3_Witness ==
    /\ Resolved /\ ~IsNumeral(arg.team)
    /\ ExactRows(arg.team) = {2}
    /\ 1 \in SubstringRows(arg.team)
    /\ IdOfRow(1) # IdOfRow(2)
    /\ result = IdOfRow(2)

\* C4: for a non-numeric query with no exact match, the ID of the first data
\* row, in file order, whose case-folded name contains the normalised query
\* is returned; the scan after the rewind ranges over every data row and the
\* header line is never matched as a record.
C4_FirstSubstringMatch ==
    (Resolved /\ ~IsNumeral(arg.team) /\ ExactRows(arg.team) = {}
        /\ SubstringRows(arg.team) # {}) =>
        /\ result = IdOfRow(Least(SubstringRows(arg.team)))
        /\ ~escaped

\* two records contain the query, none equals it, their IDs differ
C4_Witness ==
    /\ Resolved /\ ~IsNumeral(arg.team)
    /\ ExactRows(arg.team) = {}
    /\ SubstringRows(arg.team) = {1, 2}
    /\ IdOfRow(1) # IdOfRow(2)
    /\ result = IdOfRow(1)

\* the only matching record is the last data row of the file
C4_WitnessLastRow ==
    /\ Resolved /\ ~IsNumeral(arg.team)
    /\ ExactRows(arg.team) = {}
    /\ SubstringRows(arg.team) = {Len(table)}
    /\ Len(table) = 2

\* C5: a non-numeric query that matches no record, exactly or as a substring,
\* is answered with None, which is no integer ID (0 included), and nothing
\* is raised.
C5_NotFoundIsNone ==
    (Resolved /\ ~IsNumeral(arg.team) /\ ExactRows(arg.team) = {}
        /\ SubstringRows(arg.team) = {}) =>
        /\ result.kind = "None"
        /\ result # PyInt(0)
        /\ ~escaped

\* not found in a table that holds a record with ID 0
C5_Witness ==
    /\ Resolved /\ ~IsNumeral(arg.team)
    /\ SubstringRows(arg.team) = {}
    /\ \E i \in 1..Len(table) : IdOfRow(i) = PyInt(0)
    /\ result.kind = "None"

\* C21 as claimed: for a non-numeric query, an ID that is returned is the ID
\* of a record whose case-folded name contains the trimmed, case-folded
\* query; so a query that is empty or only whitespace, on a table that is
\* not empty, is never answered with None: it resolves to the first record
\* in table order.
C21_OnlyContainingRecords ==
    (Resolved /\ ~IsNumeral(arg.team)) =>
        /\ result.kind = "int" =>
                \E i \in SubstringRows(arg.team) : result = IdOfRow(i)
        /\ (Normalized(arg.team) = <<>> /\ table # <<>>) =>
                /\ result # NotFound
                /\ result = IdOfRow(1)

\* the records whose display name is blank once trimmed
BlankRows == {i \in 1..Len(table) : Strip(Lower(table[i].team_name)) = <<>>}

\* C21 amended: for a non-numeric query, an ID that is returned is the ID of
\* a record whose case-folded name contains the trimmed, case-folded query;
\* a query that is empty or only whitespace, on a table that is not empty,
\* is never answered with None: it resolves to the first record whose name
\* is blank once trimmed when there is one (the exact pass finds it), and
\* to the first record in table order otherwise.
C21_EmptyQueryBlankFirst ==
    (Resolved /\ ~IsNumeral(arg.team)) =>
        /\ result.kind = "int" =>
                \E i \in SubstringRows(arg.team) : result = IdOfRow(i)
        /\ (Normalized(arg.team) = <<>> /\ table # <<>>) =>
                /\ result # NotFound
                /\ result = IdOfRow(IF BlankRows # {} THEN Least(BlankRows) ELSE 1)

\* a query of whitespace only on a table whose second record alone has a
\* blank name got the ID of the second record, not of the first
C21_Witness ==
    /\ Resolved
    /\ arg.team = <<" ", " ">>
    /\ Len(table) = 2
    /\ BlankRows = {2}
    /\ IdOfRow(1) # IdOfRow(2)
    /\ result = IdOfRow(2)

\* a query of whitespace only on a table of two records with names that
\* are not blank and with different IDs got the ID of the first
C21_WitnessFirstRecord ==
    /\ Resolved
    /\ arg.team = <<" ", " ">>
    /\ Len(table) = 2
    /\ BlankRows = {}
    /\ IdOfRow(1) # IdOfRow(2)
    /\ result = IdOfRow(1)

\* a query that only the second record contains got the ID of the second
C21_WitnessContained ==
    /\ Resolved /\ ~IsNumeral(arg.team)
    /\ Normalized(arg.team) # <<>>
    /\ Len(table) = 2
    /\ SubstringRows(arg.team) = {2}
    /\ IdOfRow(1) # IdOfRow(2)
    /\ result = IdOfRow(2)

\* C7: a query equal to the abbreviation or to the location of a record
\* resolves to the ID of a record that has this abbreviation or location.
C7_AbbreviationOrLocation ==
    Resolved =>
        \A i \in 1..Len(table) :
            /\ arg.team = table[i].abbreviation =>
                \E k \in 1..Len(table) :
                    table[k].abbreviation = arg.team /\ result = IdOfRow(k)
            /\ arg.team = table[i].location =>
                \E k \in 1..Len(table) :
                    table[k].location = arg.team /\ result = IdOfRow(k)

----------------------------------------------------------------------------
(* Claims about the tools, checked under Spec                              *)

ToolInvoked == op \notin {"none", "get_team_id_from_name"}

\* a provider call of the invocation raised
ProviderRaised == upstream.fail > 0 /\ Len(calls) >= upstream.fail

\* the read of the reference file raised
FileReadRaised == ~upstream.readable /\ opens > 0

\* C1: when a collaborator (the provider client, a pybaseball function, the
\* read of the reference file) raises during the call of a tool, the tool
\* returns an object whose only key is "error", holding the text of the
\* exception, and no exception reaches the caller.
C1_ErrorEnvelope ==
    (ToolInvoked /\ (ProviderRaised \/ FileReadRaised)) =>
        /\ ~escaped
        /\ result.kind = "dict"
        /\ result.keys = {"error"}
        /\ result.value = IF ProviderRaised THEN upstream.msg ELSE FileError

\* the second provider call of get_mlb_standings raised
C1_Witness ==
    /\ op = "get_mlb_standings"
    /\ upstream.fail = 2 /\ Len(calls) = 2
    /\ IsErr(result) /\ ~escaped

\* the reference file could not be read while a tool resolved a team
C1_WitnessFile ==
    /\ op = "get_mlb_roster"
    /\ FileReadRaised
    /\ IsErr(result) /\ ~escaped

\* a team string that matches no known entity
Unresolvable(q) ==
    ~IsNumeral(q) /\ ExactRows(q) = {} /\ SubstringRows(q) = {}

\* C6: get_mlb_schedule, get_mlb_team_info and get_mlb_roster, given a team
\* that matches no known entity, return an error result and issue no
\* provider call.
C6_UnknownTeamIsError ==
    (/\ op \in {"get_mlb_schedule", "get_mlb_team_info", "get_mlb_roster"}
     /\ arg.team # NoneArg
     /\ upstream.readable
     /\ Unresolvable(arg.team[1])) =>
        IsErr(result) /\ calls = <<>>

\* the part of C6 that the code keeps: get_mlb_team_info and get_mlb_roster
C6_TeamInfoAndRoster ==
    (/\ op \in {"get_mlb_team_info", "get_mlb_roster"}
     /\ upstream.readable
     /\ Unresolvable(arg.team[1])) =>
        IsErr(result) /\ calls = <<>>

----------------------------------------------------------------------------
(* Claims about the lineup normaliser, checked under SpecLineup            *)

LineupInvoked == op = "get_mlb_game_lineup"

IsLineup(r) == r.kind = "dict" /\ r.keys = {"game_id", "teams"}

\* the sides the raw box score holds
RawSides(box) ==
    IF box.hasTeams THEN DOMAIN box.sides \cap {"away", "home"} ELSE {}

HasSlot(player) == player.batting_order.attr = "set"

\* a raw side on which no attribute access and no key computation fails
WellFormedSide(side) ==
    /\ side.team # "absent"
    /\ side.playersAttr = "dict" =>
        \A k \in 1..Len(side.players) :
            StartsWith(side.players[k].key, <<"i", "d">>) =>
                /\ side.players[k].person # "absent"
                /\ side.players[k].order.attr = "set" =>
                    \E n \in 1..Len(side.players[k].order.v) :
                        side.players[k].order.v[n] \in Digits \ {"0"}

\* C8: the teams object of a lineup result has a key for exactly the sides
\* the raw box score holds: a box score with one side yields that side only,
\* and an absent side never appears, not even as an empty placeholder.
C8_OnlyPresentSides ==
    LineupInvoked =>
        /\ IsLineup(result) \/ IsErr(result)
        /\ IsLineup(result) => DOMAIN result.value = RawSides(arg.box)
        /\ (/\ upstream.fail # 1
            /\ \A sd \in RawSides(arg.box) : WellFormedSide(arg.box.sides[sd]))
                => IsLineup(result)

\* a box score with a home side only, which has players
C8_Witness ==
    /\ LineupInvoked
    /\ RawSides(arg.box) = {"home"}
    /\ IsLineup(result)
    /\ DOMAIN result.value = {"home"}
    /\ Len(result.value["home"].players) = 2

\* C9: in every side of a lineup result, each player without a batting-order
\* slot comes after every player that has one.
C9_NoSlotLast ==
    (LineupInvoked /\ IsLineup(result)) =>
        \A sd \in DOMAIN result.value :
            LET ps == result.value[sd].players
            IN  \A i \in 1..Len(ps), j \in 1..Len(ps) :
                    (HasSlot(ps[i]) /\ ~HasSlot(ps[j])) => i < j

\* the batting-order string with every "0" deleted, read in base 10
StrippedKey(s) == NumeralSum(SelectSeq(s, LAMBDA c : c # "0"), 1)

\* C10: the players of a side that have a batting-order string are in
\* ascending order of the integer got by deleting every "0" of the string
\* and reading what is left in base 10 ("900" gives 9, "101" gives 11).
C10_ZeroStrippedOrder ==
    (LineupInvoked /\ IsLineup(result)) =>
        \A sd \in DOMAIN result.value :
            LET ps == result.value[sd].players
            IN  \A i \in 1..Len(ps), j \in 1..Len(ps) :
                    (/\ HasSlot(ps[i]) /\ HasSlot(ps[j])
                     /\ StrippedKey(ps[i].batting_order.v)
                            < StrippedKey(ps[j].batting_order.v)) => i < j

\* the provider lists "101" before "900"; the result has "900" (key 9)
\* before "101" (key 11)
C10_Witness ==
    /\ LineupInvoked /\ IsLineup(result)
    /\ RawSides(arg.box) = {"home"}
    /\ arg.box.sides["home"].playersAttr = "dict"
    /\ Len(arg.box.sides["home"].players) = 2
    /\ arg.box.sides["home"].players[1].order = Set(<<"1", "0", "1">>)
    /\ arg.box.sides["home"].players[2].order = Set(<<"9", "0", "0">>)
    /\ Len(result.value["home"].players) = 2
    /\ result.value["home"].players[1].batting_order.v = <<"9", "0", "0">>
    /\ result.value["home"].players[2].batting_order.v = <<"1", "0", "1">>
    /\ StrippedKey(<<"9", "0", "0">>) = 9
    /\ StrippedKey(<<"1", "0", "1">>) = 11

\* C11: for every side the raw box score holds and every player entry kept,
\* a missing or malformed optional structure (the team object of the side,
\* the person object of the player, the position list, the batting-order
\* value, also one made of "0" only, the game-status object) makes that
\* field alone take its default: the request returns a lineup with one entry
\* per kept player, never an error.
C11_GapsOnlyDefault ==
    (LineupInvoked /\ upstream.fail # 1 /\ arg.box.hasTeams) =>
        /\ IsLineup(result)
        /\ \A sd \in RawSides(arg.box) :
            LET side == arg.box.sides[sd]
                items == SlotItems(side)
                out == result.value[sd]
            IN  /\ side.team # "full" =>
                    out.team_name = "Unknown" /\ out.team_id = PyNone
                /\ Len(out.players) = Len(items)
                /\ \A k \in 1..Len(items) :
                    \E n \in 1..Len(out.players) :
                        /\ out.players[n].key = items[k].key
                        /\ items[k].person # "full" =>
                            /\ out.players[n].player_id = PyNone
                            /\ out.players[n].player_name = "Unknown"
                        /\ items[k].allpositions.attr # "set" =>
                            out.players[n].positions = <<>>

\* C12: when the object the provider returns has no teams structure at all,
\* get_mlb_game_lineup returns one object whose only key is "error", never
\* a lineup-shaped result with an empty teams object.
C12_NoTeamsIsError ==
    (LineupInvoked /\ upstream.fail # 1 /\ ~arg.box.hasTeams) =>
        /\ IsErr(result)
        /\ ~IsLineup(result)

\* the key the players of a side are ordered by: the zero-stripped integer
\* of the batting-order string, the sentinel for a player without a slot
OrderKey(player) ==
    IF HasSlot(player) THEN StrippedKey(player.batting_order.v) ELSE NoSlotKey

\* the place of the item with this dict key among the kept items of a side
PlaceOf(items, key) == CHOOSE k \in 1..Len(items) : items[k].key = key

\* C18: the order of a side is stable: two players with an equal sort key,
\* and two players that both lack a batting-order slot, appear in the order
\* the player collection of the provider lists them.
C18_StableOrder ==
    (LineupInvoked /\ IsLineup(result)) =>
        \A sd \in DOMAIN result.value :
            LET items == SlotItems(arg.box.sides[sd])
                ps == result.value[sd].players
            IN  \A i \in 1..Len(ps), j \in 1..Len(ps) :
                    (/\ OrderKey(ps[i]) = OrderKey(ps[j])
                     /\ PlaceOf(items, ps[i].key) < PlaceOf(items, ps[j].key))
                        => i < j

\* the provider lists "110" before "101", both with key 11: the result keeps
\* "110" first
C18_Witness ==
    /\ LineupInvoked /\ IsLineup(result)
    /\ RawSides(arg.box) = {"away"}
    /\ arg.box.sides["away"].playersAttr = "dict"
    /\ Len(arg.box.sides["away"].players) = 2
    /\ arg.box.sides["away"].players[1].order = Set(<<"1", "1", "0">>)
    /\ arg.box.sides["away"].players[2].order = Set(<<"1", "0", "1">>)
    /\ Len(result.value["away"].players) = 2
    /\ result.value["away"].players[1].batting_order.v = <<"1", "1", "0">>
    /\ result.value["away"].players[2].batting_order.v = <<"1", "0", "1">>
    /\ OrderKey(result.value["away"].players[1]) = 11
    /\ OrderKey(result.value["away"].players[2]) = 11

\* two players without a slot keep the order of the provider
C18_WitnessNoSlot ==
    /\ LineupInvoked /\ IsLineup(result)
    /\ RawSides(arg.box) = {"away"}
    /\ Len(result.value["away"].players) = 2
    /\ ~HasSlot(result.value["away"].players[1])
    /\ ~HasSlot(result.value["away"].players[2])
    /\ result.value["away"].players[1].key = <<"i", "d", "1">>
    /\ result.value["away"].players[2].key = <<"i", "d", "2">>

----------------------------------------------------------------------------
(* Further claims about the tools, checked under Spec                      *)

\* the raw adapter answered with a client-error status
ClientError == upstream.fail = 0 /\ 400 <= upstream.status /\ upstream.status <= 499

\* C13: when the raw adapter answers with a status in 400..499, both
\* get_mlb_sabermetrics and get_multiple_mlb_player_stats return an object
\* whose only key is "error".
C13_ClientErrorIsError ==
    (/\ op \in {"get_mlb_sabermetrics", "get_multiple_mlb_player_stats"}
     /\ ClientError) =>
        IsErr(result)

\* the tools that send one raw adapter request
AdapterTools == {"get_mlb_sabermetrics", "get_multiple_mlb_player_stats"}

\* C14: within one invocation of a tool no provider call is issued twice;
\* when a call raises, it is the last call of the invocation and the result
\* is the error object holding the exception text; when the raw adapter
\* answers with a client-error status, the request is the only call and the
\* result is what the helper returns for that status, with no provider data.
C14_NoRetry ==
    ToolInvoked =>
        /\ \A i \in 1..Len(calls), j \in 1..Len(calls) :
                calls[i] = calls[j] => i = j
        /\ ProviderRaised =>
            /\ Len(calls) = upstream.fail
            /\ IsErr(result) /\ result.value = upstream.msg
        /\ (op \in AdapterTools /\ ClientError) =>
            /\ Len(calls) = 1
            /\ result.value \in {"API error", "{}"}

\* get_mlb_standings for both leagues: the first of its two calls raised,
\* the second was never issued
C14_Witness ==
    /\ op = "get_mlb_standings"
    /\ Upper(arg.league) = "BOTH" /\ ~Falsy(arg.start_date)
    /\ upstream.fail = 1
    /\ calls = <<ProviderCall("get_standings", PyInt(103))>>
    /\ IsErr(result)

\* get_mlb_standings for both leagues issues two distinct calls when none fails
C14_WitnessBoth ==
    /\ op = "get_mlb_standings"
    /\ upstream.fail = 0
    /\ Len(calls) = 2 /\ calls[1] # calls[2]
    /\ "standings" \in result.keys

\* C15: every tool returns a JSON object that is exactly one of: the data
\* held under a named key, or an object whose key is "error"; no tool
\* returns the object of the provider as it is, without a key around it.
C15_KeyedOrError ==
    ToolInvoked =>
        /\ result.kind = "dict"
        /\ IsErr(result) \/ (result.keys # {} /\ "error" \notin result.keys)

\* C16: get_mlb_standings called with a season and without start_date (and
\* the default league), the provider succeeding, returns a result that
\* has the key "standings".
C16_SeasonOnlyStandings ==
    (/\ op = "get_mlb_standings"
     /\ arg.season # NoneArg
     /\ arg.start_date = "None" /\ arg.end_date = "None"
     /\ arg.league = "both"
     /\ upstream.fail = 0) =>
        "standings" \in result.keys

\* C20: get_mlb_standings, get_mlb_schedule and get_mlb_roster require both
\* start_date and end_date: when either is missing or empty the tool returns
\* an error object and issues no provider call.
C20_BothDatesRequired ==
    (/\ op \in {"get_mlb_standings", "get_mlb_schedule", "get_mlb_roster"}
     /\ Falsy(arg.start_date) \/ Falsy(arg.end_date)) =>
        IsErr(result) /\ calls = <<>>

\* get_mlb_sabermetrics returned the players of a full response for a
\* stat_name that is not empty
StatRequested ==
    /\ op = "get_mlb_sabermetrics"
    /\ result.keys = {"season", "group", "players"}
    /\ arg.stat_name # NoneArg /\ arg.stat_name[1] # <<>>

\* C19: called with a stat_name, every player entry maps stat_name to the
\* value the stat record of the split holds under that key whenever
\* stat_name is a key of the record ("war", "wRc"); the entry maps it to
\* None, listing the available stats, only when the record has no such key.
C19_StatNameLookup ==
    StatRequested =>
        \A n \in 1..Len(result.value) :
            LET e == result.value[n]
            IN  /\ e.stat_name = arg.stat_name[1]
                /\ arg.stat_name[1] \in DOMAIN SplitStat =>
                        e.value = PyInt(SplitStat[arg.stat_name[1]])
                /\ e.value = PyNone =>
                        /\ arg.stat_name[1] \notin DOMAIN SplitStat
                        /\ e.available_stats = DOMAIN SplitStat

----------------------------------------------------------------------------
(* Claim about requests handled at the same time, checked under            *)
(* SpecConcurrent                                                          *)

\* what request r returns when it runs alone on the same reference file and
\* with the same provider behaviour
AloneResult(r) ==
    get_mlb_team_info([team |-> Some(reqs[r].team)], UpstreamOf(r), table).ret

\* C17: however the statements of the requests interleave, every request
\* returns what it returns when run alone against the same reference file
\* and the same provider behaviour: no request changes anything another
\* request reads.
C17_Isolation ==
    \A r \in DOMAIN reqs :
        reqs[r].pc = "done" => reqs[r].result = AloneResult(r)

\* two requests that overlapped are both done: one found its team in the
\* second pass over the file, the other found none
C17_Witness ==
    /\ table # <<>>
    /\ \E r \in DOMAIN reqs, o \in DOMAIN reqs :
        /\ r # o
        /\ reqs[r].pc = "done" /\ reqs[o].pc = "done"
        /\ reqs[r].overlapped /\ reqs[o].overlapped
        /\ reqs[r].team = <<"S">> /\ reqs[r].fail = 0
        /\ reqs[r].result = Data("team_info", "team_info")
        /\ reqs[o].team = <<"s", "s", "s">>
        /\ reqs[o].result = Err("Could not find team ID")

====
